---- MODULE Spec2Model ----
(***************************************************************************)
(* Model of floatpy/parallel/transpose_wrapper.py: class TransposeWrapper. *)
(* One process's view: the adapter, the grid partition it was built on,    *)
(* and the arrays its caller passes in and gets back.                      *)
(*                                                                         *)
(* An array is a record [shape, re, im]: shape is the numpy shape, re and  *)
(* im hold the real and imaginary parts of the elements in Fortran order   *)
(* (first axis fastest, the component axis slowest).                       *)
(***************************************************************************)
EXTENDS Integers, Sequences, FiniteSets, TLC

VARIABLES gp, phase, self, args, op, dataIn, ret, err, calls, src

vars == <<gp, phase, self, args, op, dataIn, ret, err, calls, src>>

\* Largest trailing component count of an input array.
MaxC == 2

\* Element values of the caller's arrays.
Vals == {0, 1}

NoSelf == [none |-> TRUE]
NoArr == [shape |-> <<>>, re |-> <<>>, im |-> <<>>]
NoArgs == [isT3d |-> FALSE, direction |-> 0, dimension |-> 0]

----------------------------------------------------------------------------
(* Sequences of integers *)

RECURSIVE Prod(_)
Prod(s) == IF s = <<>> THEN 1 ELSE Head(s) * Prod(Tail(s))

Minus1(s) == [i \in DOMAIN s |-> s[i] - 1]

Const(n, v) == [i \in 1..n |-> v]

----------------------------------------------------------------------------
(* The grid partition (t3dmod.t3d).  Its bound queries answer in 1-based,   *)
(* inclusive indices.  Three processes share a 3x3x1 grid (FlatGrid) or a   *)
(* 1x3x3 grid (DeepGrid); p is this process's index.                        *)

Procs == 0..2

Block(st, sz) == [sz |-> sz, st |-> st, en |-> [i \in 1..3 |-> st[i] + sz[i] - 1]]

FlatGrid(p) ==
    [nat |-> Block(<<p + 1, 1, 1>>, <<1, 3, 1>>),
     x   |-> Block(<<1, p + 1, 1>>, <<3, 1, 1>>),
     y   |-> Block(<<p + 1, 1, 1>>, <<1, 3, 1>>),
     z   |-> Block(<<1, ((p + 1) % 3) + 1, 1>>, <<3, 1, 1>>)]

DeepGrid(p) ==
    [nat |-> Block(<<1, p + 1, 1>>, <<1, 1, 3>>),
     x   |-> Block(<<1, 1, p + 1>>, <<1, 3, 1>>),
     y   |-> Block(<<1, 1, ((p + 1) % 3) + 1>>, <<1, 3, 1>>),
     z   |-> Block(<<1, p + 1, 1>>, <<1, 1, 3>>)]

Partitions == {FlatGrid(p) : p \in Procs} \cup {DeepGrid(p) : p \in Procs}

\* A partition of two-dimensional data has a single plane along its third axis.
IsPlanar(g) == g.nat.sz[3] = 1 /\ g.x.sz[3] = 1 /\ g.y.sz[3] = 1 /\ g.z.sz[3] = 1

\* The pencil block of one direction: get_sz{x,y,z}, get_st{x,y,z}, get_en{x,y,z}.
PencilOf(g, direction) ==
    IF direction = 0 THEN g.x ELSE IF direction = 1 THEN g.y ELSE g.z

PencilName(direction) ==
    IF direction = 0 THEN "x" ELSE IF direction = 1 THEN "y" ELSE "z"

----------------------------------------------------------------------------
(* TransposeWrapper.__init__ *)

\* The argument checks, in the order the constructor makes them.
ConfigError_noDimCheck(isT3d, direction, dimension) ==
    IF ~isT3d THEN "RuntimeError"
    ELSE IF direction < 0 \/ direction > 2 THEN "RuntimeError"
    ELSE IF dimension < 2 \/ dimension > 3 THEN "RuntimeError"
    ELSE "none"

ConfigError(isT3d, direction, dimension) ==
    IF ~isT3d THEN "RuntimeError"
    ELSE IF direction < 0 \/ direction > 2 THEN "RuntimeError"
    ELSE IF dimension < 2 \/ dimension > 3 THEN "RuntimeError"
    ELSE IF direction >= dimension THEN "RuntimeError"
    ELSE "none"

\* The queries of the pencil block, by direction, and the conversion to
\* 0-based indexing.
PencilFields_oneBased(g, direction) ==
    LET b == PencilOf(g, direction)
    IN  [size |-> b.sz, lo |-> b.st, hi |-> Minus1(b.en)]

PencilFields(g, direction) ==
    LET b == PencilOf(g, direction)
    IN  [size |-> b.sz, lo |-> Minus1(b.st), hi |-> Minus1(b.en)]

PencilQueries(direction) ==
    LET n == PencilName(direction)
    IN  << <<"get_sz", n>>, <<"get_st", n>>, <<"get_en", n>> >>

NaturalQueries == << <<"get_sz", "3d">>, <<"get_st", "3d">>, <<"get_en", "3d">> >>

NewSelf(g, direction, dimension) ==
    LET pf == PencilFields(g, direction)
    IN  [_dim         |-> dimension,
         _direction   |-> direction,
         _3d_size     |-> g.nat.sz,
         _3d_lo       |-> Minus1(g.nat.st),
         _3d_hi       |-> Minus1(g.nat.en),
         _pencil_size |-> pf.size,
         _pencil_lo   |-> pf.lo,
         _pencil_hi   |-> pf.hi]

Directions == -1..3
Dimensions == 1..4

Construct ==
    /\ phase = "new"
    /\ \E isT3d \in BOOLEAN, direction \in Directions, dimension \in Dimensions :
         /\ dimension = 2 => IsPlanar(gp)
         /\ args' = [isT3d |-> isT3d, direction |-> direction, dimension |-> dimension]
         /\ err' = ConfigError(isT3d, direction, dimension)
         /\ IF err' = "none"
            THEN /\ self' = NewSelf(gp, direction, dimension)
                 /\ calls' = NaturalQueries \o PencilQueries(direction)
                 /\ phase' = "idle"
            ELSE /\ self' = NoSelf
                 /\ calls' = <<>>
                 /\ phase' = "failed"
    /\ op' = "init"
    /\ UNCHANGED <<gp, dataIn, ret, src>>

----------------------------------------------------------------------------
(* Accessors *)

full_pencil(s) ==
    <<SubSeq(s._pencil_lo, 1, s._dim), SubSeq(s._pencil_hi, 1, s._dim)>>

full_pencil_size(s) == SubSeq(s._pencil_size, 1, s._dim)

----------------------------------------------------------------------------
(* Arrays *)

Zeros(n) == Const(n, 0)

RealArray(shape, re) == [shape |-> shape, re |-> re, im |-> Zeros(Len(re))]

\* numpy.all(numpy.isreal(data)): every element has a zero imaginary part.
isreal_firstOnly(data) == Len(data.im) = 0 \/ data.im[1] = 0

isreal(data) == \A i \in DOMAIN data.im : data.im[i] = 0

ndim(data) == Len(data.shape)

Lead(data, dim) == SubSeq(data.shape, 1, dim)

Pad3(lead) == IF Len(lead) = 2 THEN Append(lead, 1) ELSE lead

\* Component ic (0-based) of an array whose leading axes hold n elements.
Slice(data, n, ic) ==
    [re |-> SubSeq(data.re, ic * n + 1, (ic + 1) * n),
     im |-> SubSeq(data.im, ic * n + 1, (ic + 1) * n)]

----------------------------------------------------------------------------
(* DataReshaper (floatpy.utilities.data_reshaper), data_order = 'F'.       *)

\* reshapeTo3d(data): the 3-D view of a whole array.  An array that carries
\* a trailing axis is outside the reshaper's stated contract when no component
\* index is given: the reshaper either refuses or views the whole array.
reshapeTo3d(dim, data) ==
    LET lead  == Lead(data, dim)
        whole == [err |-> "none",
                  view |-> [shape |-> Pad3(lead), re |-> data.re, im |-> data.im]]
    IN  IF ndim(data) = dim
        THEN {whole}
        ELSE {whole, [err |-> "RuntimeError", view |-> NoArr]}

\* reshapeTo3d(data, component_idx=ic): the 3-D view of component ic.
reshapeTo3dComponent(dim, data, ic) ==
    LET lead == Lead(data, dim)
        part == Slice(data, Prod(lead), ic)
    IN  [shape |-> Pad3(lead), re |-> part.re, im |-> part.im]

\* reshapeFrom3d(data): collapses the padded unit axis and keeps the
\* component axis of a 4-D buffer.
reshapeFrom3d(dim, buf) ==
    [shape |-> IF Len(buf.shape) = 4
               THEN Append(SubSeq(buf.shape, 1, dim), buf.shape[4])
               ELSE SubSeq(buf.shape, 1, dim),
     re |-> buf.re,
     im |-> buf.im]

----------------------------------------------------------------------------
(* The transpose primitives of the grid partition: transpose_3d_to_{x,y,z}  *)
(* and transpose_{x,y,z}_to_3d.  The two primitives of one direction are    *)
(* mutual inverses; each moves every element of the block to its place in   *)
(* the other layout, a different rearrangement for each direction.          *)

PermTo(d, n, i) ==
    IF d = 0 THEN (i % n) + 1
    ELSE IF d = 1 THEN ((i + 1) % n) + 1
    ELSE n + 1 - i

PermFrom(d, n, i) ==
    IF d = 0 THEN ((i + n - 2) % n) + 1
    ELSE IF d = 1 THEN ((i + 2 * n - 3) % n) + 1
    ELSE n + 1 - i

\* A primitive handed a block of the wrong shape fails or fills the output
\* with values the caller cannot predict.
Prim(g, kind, direction, in3d, outShape) ==
    LET pen    == PencilOf(g, direction).sz
        inExp  == IF kind = "to" THEN g.nat.sz ELSE pen
        outExp == IF kind = "to" THEN pen ELSE g.nat.sz
        n      == Prod(outShape)
    IN  IF in3d.shape = inExp /\ outShape = outExp
        THEN {[err |-> "none",
               out |-> [shape |-> outShape,
                        re |-> [j \in 1..n |->
                                 IF kind = "to" THEN in3d.re[PermFrom(direction, n, j)]
                                                ELSE in3d.re[PermTo(direction, n, j)]],
                        im |-> [j \in 1..n |->
                                 IF kind = "to" THEN in3d.im[PermFrom(direction, n, j)]
                                                ELSE in3d.im[PermTo(direction, n, j)]]]]}
        ELSE {[err |-> "PrimitiveError", out |-> NoArr]}
             \cup {[err |-> "none", out |-> RealArray(outShape, r)] :
                     r \in [1..n -> Vals]}

Call(kind, direction, ic) ==
    <<IF kind = "to" THEN "transpose_3d_to" ELSE "transpose_to_3d",
      PencilName(direction), ic>>

----------------------------------------------------------------------------
(* TransposeWrapper.transposeToPencil / transposeFromPencil                 *)

\* num_components: the size of the trailing axis when there is one.
num_components(s, data) ==
    IF ndim(data) = s._dim + 1 THEN data.shape[s._dim + 1] ELSE 1

\* What numpy.empty leaves in a buffer before the primitive writes it.
Unwritten(shape) == [shape |-> shape, re |-> Const(Prod(shape), 2), im |-> Zeros(Prod(shape))]

\* The 4-D working buffer as one array: component slots in index order.
RECURSIVE Stack(_, _)
Stack(slots, C) ==
    IF C = 0 THEN [re |-> <<>>, im |-> <<>>]
    ELSE LET rest == Stack(slots, C - 1)
         IN  [re |-> rest.re \o slots[C - 1].re, im |-> rest.im \o slots[C - 1].im]

\* One outcome of a call: the error raised (or "none"), the value returned
\* and the primitives called on the grid partition, in order.
Raise(e, log) == [err |-> e, ret |-> NoArr, calls |-> log]
Return(a, log) == [err |-> "none", ret |-> a, calls |-> log]

\* The branch for a single component (num_components == 1).
SingleBranch(s, g, kind, data, outSize) ==
    UNION { IF v.err # "none"
            THEN {Raise(v.err, <<>>)}
            ELSE { IF r.err # "none"
                   THEN Raise(r.err, <<Call(kind, s._direction, 0)>>)
                   ELSE Return(reshapeFrom3d(s._dim, r.out), <<Call(kind, s._direction, 0)>>)
                   : r \in Prim(g, kind, s._direction, v.view, outSize) }
            : v \in reshapeTo3d(s._dim, data) }

\* One iteration of the loop over components: acc is the state of the loop
\* before iteration ic (an error that ended it, the buffer's slots, the log).
LoopStep_slotZero(s, g, kind, data, outSize, acc, ic) ==
    IF acc.err # "none" THEN {acc}
    ELSE { IF r.err # "none"
           THEN [acc EXCEPT !.err = r.err,
                            !.calls = Append(@, Call(kind, s._direction, ic))]
           ELSE [acc EXCEPT !.slots[0] = r.out,
                            !.calls = Append(@, Call(kind, s._direction, ic))]
           : r \in Prim(g, kind, s._direction,
                        reshapeTo3dComponent(s._dim, data, ic), outSize) }

LoopStep(s, g, kind, data, outSize, acc, ic) ==
    IF acc.err # "none" THEN {acc}
    ELSE { IF r.err # "none"
           THEN [acc EXCEPT !.err = r.err,
                            !.calls = Append(@, Call(kind, s._direction, ic))]
           ELSE [acc EXCEPT !.slots[ic] = r.out,
                            !.calls = Append(@, Call(kind, s._direction, ic))]
           : r \in Prim(g, kind, s._direction,
                        reshapeTo3dComponent(s._dim, data, ic), outSize) }

\* for ic in range(num_components): the loop states after k iterations.
RECURSIVE Loop(_, _, _, _, _, _, _)
Loop(s, g, kind, data, outSize, C, k) ==
    IF k = 0
    THEN {[err |-> "none", slots |-> [c \in 0..(C - 1) |-> Unwritten(outSize)], calls |-> <<>>]}
    ELSE UNION { LoopStep(s, g, kind, data, outSize, acc, k - 1)
                 : acc \in Loop(s, g, kind, data, outSize, C, k - 1) }

\* The branch for several components.
MultiBranch_shortLoop(s, g, kind, data, outSize) ==
    LET C == num_components(s, data)
    IN  { IF acc.err # "none"
          THEN Raise(acc.err, acc.calls)
          ELSE LET all == Stack(acc.slots, C)
               IN  Return(reshapeFrom3d(s._dim,
                              [shape |-> Append(outSize, C), re |-> all.re, im |-> all.im]),
                          acc.calls)
          : acc \in Loop(s, g, kind, data, outSize, C, IF C = 0 THEN 0 ELSE C - 1) }

MultiBranch_flat(s, g, kind, data, outSize) ==
    LET C == num_components(s, data)
    IN  { IF acc.err # "none"
          THEN Raise(acc.err, acc.calls)
          ELSE LET all == Stack(acc.slots, C)
               IN  Return(reshapeFrom3d(s._dim,
                              [shape |-> [outSize EXCEPT ![3] = @ * C],
                               re |-> all.re, im |-> all.im]),
                          acc.calls)
          : acc \in Loop(s, g, kind, data, outSize, C, C) }

MultiBranch(s, g, kind, data, outSize) ==
    LET C == num_components(s, data)
    IN  { IF acc.err # "none"
          THEN Raise(acc.err, acc.calls)
          ELSE LET all == Stack(acc.slots, C)
               IN  Return(reshapeFrom3d(s._dim,
                              [shape |-> Append(outSize, C), re |-> all.re, im |-> all.im]),
                          acc.calls)
          : acc \in Loop(s, g, kind, data, outSize, C, C) }

\* transposeToPencil(data): natural block -> pencil block.
transposeToPencil_naturalBuffer(s, g, data) ==
    IF ~isreal(data) THEN {Raise("ValueError", <<>>)}
    ELSE IF num_components(s, data) = 1
         THEN SingleBranch(s, g, "to", data, s._3d_size)
         ELSE MultiBranch(s, g, "to", data, s._3d_size)

transposeToPencil(s, g, data) ==
    IF ~isreal(data) THEN {Raise("ValueError", <<>>)}
    ELSE IF num_components(s, data) = 1
         THEN SingleBranch(s, g, "to", data, s._pencil_size)
         ELSE MultiBranch(s, g, "to", data, s._pencil_size)

\* transposeFromPencil(data): pencil block -> natural block.
transposeFromPencil_otherAxis(s, g, data) ==
    LET t == [s EXCEPT !._direction = (@ + 1) % s._dim]
    IN  IF ~isreal(data) THEN {Raise("ValueError", <<>>)}
        ELSE IF num_components(s, data) = 1
             THEN SingleBranch(t, g, "from", data, s._3d_size)
             ELSE MultiBranch(t, g, "from", data, s._3d_size)

transposeFromPencil(s, g, data) ==
    IF ~isreal(data) THEN {Raise("ValueError", <<>>)}
    ELSE IF num_components(s, data) = 1
         THEN SingleBranch(s, g, "from", data, s._3d_size)
         ELSE MultiBranch(s, g, "from", data, s._3d_size)

----------------------------------------------------------------------------
(* The caller's arrays *)

NaturalLead(s) == SubSeq(s._3d_size, 1, s._dim)
PencilLead(s) == SubSeq(s._pencil_size, 1, s._dim)

\* Leading axes that match neither block.
OddLead(s) == [NaturalLead(s) EXCEPT ![1] = @ + PencilLead(s)[1]]

WithComponents(lead) == {lead} \cup {Append(lead, C) : C \in 0..MaxC}

AllReal(shape) == {RealArray(shape, r) : r \in [1..Prod(shape) -> Vals]}

ConstReal(shape) == {RealArray(shape, Const(Prod(shape), v)) : v \in Vals}

OneComplex(shape) ==
    {[shape |-> shape, re |-> Const(Prod(shape), v),
      im |-> [i \in 1..Prod(shape) |-> IF i = k THEN 1 ELSE 0]] :
        v \in Vals, k \in 1..Prod(shape)}

\* What a caller may pass to a transpose of an idle adapter: every real array
\* of the expected block, arrays with one complex element, and real arrays
\* whose leading axes are those of another block.
Inputs(s, kind) ==
    LET good   == IF kind = "to" THEN NaturalLead(s) ELSE PencilLead(s)
        others == {NaturalLead(s), PencilLead(s), OddLead(s)} \ {good}
    IN  UNION {AllReal(sh) \cup OneComplex(sh) : sh \in WithComponents(good)}
        \cup UNION {ConstReal(sh) : sh \in UNION {WithComponents(l) : l \in others}}

\* A caller holding the array a transpose returned passes it to the opposite
\* transpose.
CallerArrays(kind) ==
    IF phase = "idle" THEN Inputs(self, kind)
    ELSE IF phase = "returned" /\ err = "none" /\ op # kind THEN {ret}
    ELSE {}

TransposeToPencil ==
    /\ phase \in {"idle", "returned"}
    /\ \E data \in CallerArrays("to") :
         \E o \in transposeToPencil(self, gp, data) :
            /\ dataIn' = data
            /\ ret' = o.ret
            /\ err' = o.err
            /\ calls' = o.calls
    /\ src' = IF phase = "returned" THEN dataIn ELSE NoArr
    /\ op' = "to"
    /\ phase' = "returned"
    /\ UNCHANGED <<gp, self, args>>

TransposeFromPencil_clobber ==
    /\ phase \in {"idle", "returned"}
    /\ \E data \in CallerArrays("from") :
         \E o \in transposeFromPencil(self, gp, data) :
            /\ dataIn' = data
            /\ ret' = o.ret
            /\ err' = o.err
            /\ calls' = o.calls
            /\ self' = [self EXCEPT !._pencil_size = Pad3(Lead(data, self._dim))]
    /\ src' = IF phase = "returned" THEN dataIn ELSE NoArr
    /\ op' = "from"
    /\ phase' = "returned"
    /\ UNCHANGED <<gp, args>>

TransposeFromPencil ==
    /\ phase \in {"idle", "returned"}
    /\ \E data \in CallerArrays("from") :
         \E o \in transposeFromPencil(self, gp, data) :
            /\ dataIn' = data
            /\ ret' = o.ret
            /\ err' = o.err
            /\ calls' = o.calls
    /\ src' = IF phase = "returned" THEN dataIn ELSE NoArr
    /\ op' = "from"
    /\ phase' = "returned"
    /\ UNCHANGED <<gp, self, args>>

\* The caller drops the arrays of the last call; the adapter stays.
Discard ==
    /\ phase = "returned"
    /\ phase' = "idle"
    /\ op' = "none"
    /\ dataIn' = NoArr
    /\ ret' = NoArr
    /\ err' = "none"
    /\ calls' = <<>>
    /\ src' = NoArr
    /\ UNCHANGED <<gp, self, args>>

----------------------------------------------------------------------------

Init ==
    /\ gp \in Partitions
    /\ phase = "new"
    /\ self = NoSelf
    /\ args = NoArgs
    /\ op = "none"
    /\ dataIn = NoArr
    /\ ret = NoArr
    /\ err = "none"
    /\ calls = <<>>
    /\ src = NoArr

Next ==
    \/ Construct
    \/ TransposeToPencil
    \/ TransposeFromPencil
    \/ Discard

Spec == Init /\ [][Next]_vars

----------------------------------------------------------------------------
(* Vocabulary of the properties *)

Built == phase \in {"idle", "returned"}

Returned(kind) == phase = "returned" /\ op = kind

ExpectedLead(kind) == IF kind = "to" THEN NaturalLead(self) ELSE PencilLead(self)

ResultLead(kind) == IF kind = "to" THEN PencilLead(self) ELSE NaturalLead(self)

HasImaginary(data) == \E i \in 1..Len(data.im) : data.im[i] # 0

\* Real data whose leading axes are those of the block the call expects.
ValidInput(kind, data) ==
    /\ ~HasImaginary(data)
    /\ ndim(data) \in {self._dim, self._dim + 1}
    /\ Lead(data, self._dim) = ExpectedLead(kind)

HasTrailing(data) == ndim(data) = self._dim + 1

Trailing(data) == data.shape[self._dim + 1]

\* The state after transposeFromPencil(transposeToPencil(A)): A is src.
RoundTripOf(A) ==
    /\ Returned("from")
    /\ src = A
    /\ src # NoArr
    /\ ValidInput("to", A)

----------------------------------------------------------------------------
(* C1 *)

\* A trailing component axis of size 1.
UnitTrailing(data) == HasTrailing(data) /\ Trailing(data) = 1

\* C1 as stated: transposeToPencil returns for every valid natural array A,
\* with or without a trailing component axis, and transposeFromPencil of what
\* it returned is A, shape and elements.
C1_RoundTripAnyTrailing ==
    /\ (Returned("to") /\ ValidInput("to", dataIn)) => err = "none"
    /\ RoundTripOf(src) => (err = "none" /\ ret = src)

\* C1 (amended): the round trip of a valid natural array A returns A, shape
\* and elements, when A has exactly rank axes or a trailing axis of size
\* other than 1; when the trailing axis has size 1 a round trip that returns
\* gives A's elements with that axis dropped.
C1_RoundTrip ==
    /\ (Returned("to") /\ ValidInput("to", dataIn) /\ ~UnitTrailing(dataIn))
          => err = "none"
    /\ RoundTripOf(src) =>
          IF UnitTrailing(src)
          THEN err = "none" =>
                  (ret.re = src.re /\ ret.im = src.im /\ ret.shape = NaturalLead(self))
          ELSE err = "none" /\ ret = src

C1_Witness ==
    /\ RoundTripOf(src)
    /\ HasTrailing(src) /\ Trailing(src) = 2
    /\ src.re = <<0, 1, 1, 1, 0, 0>>
    /\ ret = src
    /\ dataIn.re # src.re
    /\ self._dim = 3 /\ self._direction = 2

----------------------------------------------------------------------------
(* C2 *)

\* C2: the first rank axes of transposeToPencil of a valid natural array
\* equal full_pencil_size, and the first rank axes of transposeFromPencil of
\* a valid pencil array equal the natural block size truncated to rank.  The
\* call returns, except possibly when the trailing axis has size 1 and the
\* reshaper refuses it.
C2_ShapeContract ==
    /\ (Returned("to") /\ ValidInput("to", dataIn) /\ err = "none")
          => SubSeq(ret.shape, 1, self._dim) = full_pencil_size(self)
    /\ (Returned("from") /\ ValidInput("from", dataIn) /\ err = "none")
          => SubSeq(ret.shape, 1, self._dim) = SubSeq(self._3d_size, 1, self._dim)
    /\ (phase = "returned" /\ ValidInput(op, dataIn) /\ ~UnitTrailing(dataIn))
          => err = "none"

C2_Witness ==
    /\ Returned("to") /\ ValidInput("to", dataIn) /\ err = "none"
    /\ HasTrailing(dataIn) /\ Trailing(dataIn) = 2
    /\ self._dim = 2
    /\ NaturalLead(self) = <<1, 3>>
    /\ ret.shape = <<3, 1, 2>>

----------------------------------------------------------------------------
(* C3 *)

IllegalConfig(a) ==
    \/ a.dimension \notin {2, 3}
    \/ a.direction < 0
    \/ a.direction >= a.dimension

\* C3: a construction with direction outside [0, rank) or rank outside
\* {2, 3} fails with an error, leaves no adapter, and has made no call on
\* the grid partition.
C3_IllegalConfigRejected ==
    (phase # "new" /\ IllegalConfig(args)) =>
        /\ phase = "failed"
        /\ err = "RuntimeError"
        /\ self = NoSelf
        /\ calls = <<>>

C3_Witness ==
    /\ phase = "failed"
    /\ args = [isT3d |-> TRUE, direction |-> 2, dimension |-> 2]
    /\ calls = <<>>

----------------------------------------------------------------------------
(* C4 *)

\* C4: a transpose of data with a non-zero imaginary part fails with an
\* input error, returns nothing and calls no transpose primitive.
C4_ComplexRejected ==
    (phase = "returned" /\ HasImaginary(dataIn)) =>
        /\ err = "ValueError"
        /\ ret = NoArr
        /\ calls = <<>>

C4_Witness ==
    /\ Returned("from")
    /\ HasTrailing(dataIn) /\ Trailing(dataIn) = 2
    /\ dataIn.im = <<0, 0, 0, 0, 1, 0>>
    /\ err = "ValueError"

----------------------------------------------------------------------------
(* C5 *)

\* C5 as stated: a transpose of real data whose leading axes differ from the
\* expected block fails with an input error and calls no transpose primitive.
C5_ShapeMismatchRejected ==
    (phase = "returned" /\ ~HasImaginary(dataIn)
       /\ Lead(dataIn, self._dim) # ExpectedLead(op)) =>
        /\ err = "ValueError"
        /\ ret = NoArr
        /\ calls = <<>>

----------------------------------------------------------------------------
(* C6 *)

ExpectedCalls(kind, direction, C) == [i \in 1..C |-> Call(kind, direction, i - 1)]

\* C6: a successful transpose of an input with C components has called the
\* primitive of its kind and of the configured direction exactly C times, once
\* per component, in ascending component order, and nothing else.
C6_CallSequence ==
    (phase = "returned" /\ err = "none") =>
        calls = ExpectedCalls(op, self._direction, num_components(self, dataIn))

C6_Witness ==
    /\ Returned("from") /\ err = "none"
    /\ self._direction = 1
    /\ calls = << <<"transpose_to_3d", "y", 0>>, <<"transpose_to_3d", "y", 1>> >>

----------------------------------------------------------------------------
(* C7 *)

Transposed(kind, data) ==
    IF kind = "to" THEN transposeToPencil(self, gp, data)
                   ELSE transposeFromPencil(self, gp, data)

\* The single-component array made of component c of data.
ComponentAlone(data, c) ==
    LET lead == Lead(data, self._dim)
        part == Slice(data, Prod(lead), c)
    IN  [shape |-> lead, re |-> part.re, im |-> part.im]

\* C7: component c of the transpose of an input with C > 1 components is the
\* transpose of the single-component array made of input component c.
C7_ComponentIndependence ==
    (phase = "returned" /\ err = "none" /\ ValidInput(op, dataIn)
       /\ HasTrailing(dataIn) /\ Trailing(dataIn) > 1) =>
        \A c \in 0..(Trailing(dataIn) - 1) :
            \A o \in Transposed(op, ComponentAlone(dataIn, c)) :
                /\ o.err = "none"
                /\ o.ret = ComponentAlone(ret, c)

C7_Witness ==
    /\ Returned("to") /\ err = "none" /\ ValidInput("to", dataIn)
    /\ HasTrailing(dataIn) /\ Trailing(dataIn) = 2
    /\ dataIn.re = <<1, 0, 0, 0, 1, 1>>
    /\ self._direction = 0
    /\ ret.re = <<0, 1, 0, 1, 0, 1>>

----------------------------------------------------------------------------
(* C8 *)

\* C8: full_pencil is the partition's (st - 1, en - 1) of the pencil of the
\* configured direction, truncated to rank; hi - lo + 1 is full_pencil_size;
\* construction queried that pencil and no other.
C8_BoundsConsistency ==
    Built =>
        LET b  == PencilOf(gp, self._direction)
            lo == full_pencil(self)[1]
            hi == full_pencil(self)[2]
        IN  /\ lo = SubSeq(Minus1(b.st), 1, self._dim)
            /\ hi = SubSeq(Minus1(b.en), 1, self._dim)
            /\ \A i \in 1..self._dim : hi[i] - lo[i] + 1 = full_pencil_size(self)[i]
            /\ op = "init" =>
                 \A i \in 1..Len(calls) :
                     calls[i][2] \in {"3d", PencilName(self._direction)}

C8_Witness ==
    /\ Built
    /\ self._dim = 3 /\ self._direction = 2
    /\ full_pencil(self) = << <<0, 2, 0>>, <<0, 2, 2>> >>
    /\ full_pencil_size(self) = <<1, 1, 3>>

----------------------------------------------------------------------------
(* C9 *)

\* C9 as stated: a valid input with a trailing axis of size C >= 1 gets a
\* result; a result has a trailing axis of size C whenever the input has one
\* of size C >= 1, and exactly rank axes when the input has rank axes.
C9_TrailingAlwaysKept ==
    /\ (phase = "returned" /\ ValidInput(op, dataIn)
          /\ HasTrailing(dataIn) /\ Trailing(dataIn) >= 1) => err = "none"
    /\ (phase = "returned" /\ err = "none") =>
          IF HasTrailing(dataIn) /\ Trailing(dataIn) >= 1
          THEN ndim(ret) = self._dim + 1 /\ Trailing(ret) = Trailing(dataIn)
          ELSE HasTrailing(dataIn) \/ ndim(ret) = self._dim

\* C9 (amended): a valid input with a trailing axis of size C >= 2 gets a
\* result; a result has a trailing axis of size C whenever the input has one
\* of size C >= 2; it has exactly rank axes when the input has rank axes or a
\* trailing axis of size 1.
C9_TrailingKept ==
    /\ (phase = "returned" /\ ValidInput(op, dataIn)
          /\ HasTrailing(dataIn) /\ Trailing(dataIn) >= 2) => err = "none"
    /\ (phase = "returned" /\ err = "none") =>
          IF HasTrailing(dataIn) /\ Trailing(dataIn) >= 2
          THEN ndim(ret) = self._dim + 1 /\ Trailing(ret) = Trailing(dataIn)
          ELSE (HasTrailing(dataIn) /\ Trailing(dataIn) = 0) \/ ndim(ret) = self._dim

C9_Witness ==
    /\ Returned("to") /\ err = "none"
    /\ HasTrailing(dataIn) /\ Trailing(dataIn) = 1
    /\ self._dim = 3
    /\ ndim(ret) = 3

----------------------------------------------------------------------------
(* C10 *)

\* C10: once the adapter is built no call changes its direction, rank,
\* natural block or pencil block, nor the partition, so full_pencil and
\* full_pencil_size answer the same before and after every call.
C10_GeometryImmutable ==
    [][Built =>
         /\ self' = self
         /\ gp' = gp
         /\ full_pencil(self') = full_pencil(self)
         /\ full_pencil_size(self') = full_pencil_size(self)]_vars

C10_Witness ==
    /\ Returned("from")
    /\ err = "PrimitiveError"
    /\ self = NewSelf(gp, args.direction, args.dimension)

====
